---- MODULE Spec2Model ----
(***************************************************************************)
(* IT asset management backend: the asset lifecycle, the assignment        *)
(* ledger and the repair/loaner workflow of AssetRepository                *)
(* (app/db/repositories/asset_repository.py) over the relational schema of *)
(* app/db/models.py.                                                       *)
(*                                                                         *)
(* Every repository method is one transaction: it reads and writes through *)
(* its session and ends in session.commit(), or in session.rollback() when *)
(* any statement raises.  In Spec each method runs to completion as one    *)
(* action.  In SpecConc the two halves of create (the read of the counter  *)
(* row, the flush and commit) are separate steps of two sessions.          *)
(***************************************************************************)
EXTENDS Integers, Sequences, FiniteSets, TLC

VARIABLES
    assetidcounter,       \* table assetidcounter: << >> or one row
    assetdata,            \* table assetdata: AssetId -> row
    specdata,             \* table specdata: sequence of rows, in key order
    assignmenthistory,    \* table assignmenthistory: sequence of rows, in key order
    repairstatustracker,  \* table repairstatustracker: sequence of rows, in key order
    peopledata,           \* table peopledata: NameId -> Name
    clock,                \* datetime.now(), in days: a day passes after every commit
    lastCommit,           \* the last call that committed: method, asset id, loaner id
    issued,               \* the ids successful create() calls returned, in commit order
    sessions,             \* SpecConc: the open create() call of each session
    authdata,             \* table authdata: id -> row with the refresh token columns
    issuedTokens,         \* the refresh tokens handed to clients: token -> user_id
    retiredTokens,        \* the tokens a rotation or a logout replaced in authdata
    authNow,              \* datetime.now(timezone.utc) of the token code, in hours
    lastAuth              \* the last refresh or logout request and its outcome

vars == <<assetidcounter, assetdata, specdata, assignmenthistory,
          repairstatustracker, peopledata, clock, lastCommit, issued, sessions,
          authdata, issuedTokens, retiredTokens, authNow, lastAuth>>

authVars == <<authdata, issuedTokens, retiredTokens, authNow, lastAuth>>

tables == <<assetidcounter, assetdata, specdata, assignmenthistory,
            repairstatustracker>>

----------------------------------------------------------------------------
(* Bounds of the model *)

MaxAssets == 2      \* create() calls that may generate an identifier
MaxCommits == 4     \* transactions committed in one behaviour
MaxTokens == 3      \* refresh tokens created in one behaviour
MaxTicks == 2       \* times the clock of the token code advances

(* Program constants *)

CounterFloor == 1000
REFRESH_TOKEN_EXPIRE_HOURS == 24

----------------------------------------------------------------------------
(* Values *)

NULL == "NULL"          \* None / SQL NULL of a string column
NoAsset == << >>        \* None where an asset id is expected
NullTime == 0           \* NULL of a date or timestamp column

AssetIdOf(n) == <<"AST_", n>>

UnknownAsset == AssetIdOf(CounterFloor)     \* an id no create() returns

Serials == {"SN-1", "SN-2"}
Brands == {"Acme"}
Types == {"Laptop"}
EmployeeArgs == {NULL, "E1", "E2", "E9"}     \* "E9" is not in peopledata
Details == {"screen crack"}
PurchaseDates == {"2024-01-15T10:30:00Z", "15/01/2024"}

\* assetspecifications rows of the type: field_key -> field_label
FieldLabels == [ram |-> "RAM"]
\* the specifications dict of a request, as a sequence of <<key, value>>
SpecInputs == { << <<"ram", "8GB">>, <<"color", "">>, <<"note", "spare">> >> }

Faults == {"none", "asset", "spec", "history", "commit"}
Sessions == {"s1", "s2"}

OrNone(x) == IF x = "" THEN NULL ELSE x
Truthy(x) == x # NULL /\ x # ""
TruthyId(x) == x # NoAsset

\* datetime.fromisoformat(s.replace('Z', '+00:00')) accepts these
IsIsoDate(s) == s \in {"2024-01-15", "2024-01-15T10:30:00Z"}

----------------------------------------------------------------------------
(* The store as one value, so that a transaction can be rolled back *)

Store == [assetidcounter |-> assetidcounter, assetdata |-> assetdata,
          specdata |-> specdata, assignmenthistory |-> assignmenthistory,
          repairstatustracker |-> repairstatustracker]

SetStore(s) ==
    /\ assetidcounter' = s.assetidcounter
    /\ assetdata' = s.assetdata
    /\ specdata' = s.specdata
    /\ assignmenthistory' = s.assignmenthistory
    /\ repairstatustracker' = s.repairstatustracker

\* session.commit(): the flushed writes become the store
Commit(pre, cur) == cur

\* a rollback that keeps what the transaction had flushed
Rollback_KeepsFlushed(pre, cur) == cur

\* session.rollback(): the store is what it was before the transaction
Rollback(pre, cur) == pre

\* a call that committed: the method, the asset id passed (or generated by
\* create) and the loaner id passed to start_repair
Call(op, asset, temp) == [op |-> op, asset |-> asset, temp |-> temp]

----------------------------------------------------------------------------
(* Rows and the constraints the schema declares on them *)

AssetRow(serial, type, brand, assignedTo, repairStatus) ==
    [SerialNo |-> serial, AssetType |-> type, Brand |-> brand,
     AssignedTo |-> assignedTo, RepairStatus |-> repairStatus,
     IsTempAsset |-> FALSE]

HistoryRow(asset_id, emp, name, day) ==
    [AssetId |-> asset_id, EmployeeId |-> emp, EmployeeName |-> name,
     AssignedOn |-> day, ReturnedOn |-> NullTime, IsActive |-> TRUE]

RepairRow(asset_id, temp_id, details, now) ==
    [AssetId |-> asset_id, TempAssetId |-> temp_id,
     RepairStartTimestamp |-> now, RepairEndTimestamp |-> NullTime,
     RepairDetails |-> details]

SpecRow(asset_id, type, name, value) ==
    [AssetId |-> asset_id, AssetTypeName |-> type, SpecFieldName |-> name,
     SpecFieldValue |-> value]

\* a schema without the unique constraint
UniqueSerialBrandType_Missing(s, row) == TRUE

\* UniqueConstraint('SerialNo', 'Brand', 'AssetType')
UniqueSerialBrandType(s, row) ==
    \A a \in DOMAIN s.assetdata :
        ~ (/\ s.assetdata[a].SerialNo = row.SerialNo
           /\ s.assetdata[a].Brand = row.Brand
           /\ s.assetdata[a].AssetType = row.AssetType)

\* ForeignKey("peopledata.NameId") of a nullable column
EmployeeFkOk(people, emp) == emp = NULL \/ emp \in DOMAIN people

\* the INSERT into assetdata is accepted
AssetInsertOk(s, people, asset_id, row) ==
    /\ asset_id \notin DOMAIN s.assetdata
    /\ UniqueSerialBrandType(s, row)
    /\ EmployeeFkOk(people, row.AssignedTo)

\* a schema without the check constraint: the two foreign keys only
RepairInsertOk_NoCheck(s, row) ==
    /\ row.AssetId \in DOMAIN s.assetdata
    /\ row.TempAssetId \in DOMAIN s.assetdata

\* CheckConstraint("AssetId <> TempAssetId") and the two foreign keys
RepairInsertOk(s, row) ==
    /\ row.AssetId # row.TempAssetId
    /\ row.AssetId \in DOMAIN s.assetdata
    /\ row.TempAssetId \in DOMAIN s.assetdata

\* employee.Name if employee else the id
EmployeeNameOf(people, emp) ==
    IF emp \in DOMAIN people THEN people[emp] ELSE emp

----------------------------------------------------------------------------
(* AssetRepository.create *)

\* the counter row is read, or created at the floor, and never incremented
NextCounterValue_NoIncrement(s) ==
    IF s.assetidcounter = << >> THEN CounterFloor
    ELSE s.assetidcounter[1].current_value

\* counter = session.get(AssetIdCounter, 1); created at the floor if missing;
\* counter.current_value += 1
NextCounterValue(s) ==
    IF s.assetidcounter = << >> THEN CounterFloor + 1
    ELSE s.assetidcounter[1].current_value + 1

WriteCounter(s, v) ==
    [s EXCEPT !.assetidcounter = << [id |-> 1, current_value |-> v] >>]

\* field_mapping.get(field_key, field_key)
LabelOf(key) == IF key \in DOMAIN FieldLabels THEN FieldLabels[key] ELSE key

RECURSIVE SpecRowsOf(_, _, _)
SpecRowsOf(asset_id, type, specifications) ==
    IF specifications = << >> THEN << >>
    ELSE LET kv == Head(specifications)
             rest == SpecRowsOf(asset_id, type, Tail(specifications))
         IN IF kv[2] # ""
            THEN <<SpecRow(asset_id, type, LabelOf(kv[1]), kv[2])>> \o rest
            ELSE rest

\* the writes of create in the order they are flushed; v is the counter value
\* this call computed; fault is a store error raised at one of the statements
CreateFlush(s, people, in, v, fault, today) ==
    LET asset_id == AssetIdOf(v)
        assigned_to == OrNone(in.assignedTo)
        row == AssetRow(in.serialNumber, in.assetType, in.brand,
                        assigned_to, in.repairStatus)
        s1 == WriteCounter(s, v)
        s2 == [s1 EXCEPT !.assetdata =
                  [a \in DOMAIN s1.assetdata \cup {asset_id} |->
                      IF a = asset_id THEN row ELSE s1.assetdata[a]]]
        s3 == [s2 EXCEPT !.specdata =
                  @ \o SpecRowsOf(asset_id, in.assetType, in.specifications)]
        s4 == IF Truthy(assigned_to)
              THEN [s3 EXCEPT !.assignmenthistory =
                       Append(@, HistoryRow(asset_id, assigned_to,
                                 EmployeeNameOf(people, assigned_to), today))]
              ELSE s3
    IN  IF fault = "asset" THEN [store |-> s1, status |-> "StoreError"]
        ELSE IF ~ AssetInsertOk(s1, people, asset_id, row)
        THEN [store |-> s1, status |-> "IntegrityError"]
        ELSE IF fault = "spec" THEN [store |-> s2, status |-> "StoreError"]
        ELSE IF fault = "history" THEN [store |-> s3, status |-> "StoreError"]
        ELSE IF fault = "commit" THEN [store |-> s4, status |-> "StoreError"]
        ELSE [store |-> s4, status |-> "ok"]

\* create(asset_data, specifications): the store it leaves and what it returns
Create(s, people, in, fault, today) ==
    LET v == NextCounterValue(s)
        asset_id == AssetIdOf(v)
        parsed == in.purchaseDate = "" \/ IsIsoDate(in.purchaseDate)
        f == CreateFlush(s, people, in, v, fault, today)
    IN  IF ~ parsed
        THEN [store |-> Rollback(s, s), status |-> "ValueError", asset_id |-> asset_id]
        ELSE IF f.status = "ok"
        THEN [store |-> Commit(s, f.store), status |-> "ok", asset_id |-> asset_id]
        ELSE [store |-> Rollback(s, f.store), status |-> f.status, asset_id |-> asset_id]

\* a store error can be raised only by a statement create sends
FaultsFor(in) ==
    IF ~ (in.purchaseDate = "" \/ IsIsoDate(in.purchaseDate)) THEN {"none"}
    ELSE {"none", "asset", "commit"}
         \cup (IF SpecRowsOf(NoAsset, in.assetType, in.specifications) # << >>
               THEN {"spec"} ELSE {})
         \cup (IF Truthy(OrNone(in.assignedTo)) THEN {"history"} ELSE {})

CreateInputs ==
    [serialNumber : Serials, assetType : Types, brand : Brands,
     assignedTo : EmployeeArgs, repairStatus : BOOLEAN,
     specifications : SpecInputs, purchaseDate : PurchaseDates]

\* the call ends: a commit is recorded and a day passes, a rollback leaves
\* no trace
Ended(status, call) ==
    IF status = "ok"
    THEN clock <= MaxCommits /\ clock' = clock + 1 /\ lastCommit' = call
    ELSE clock' = clock /\ lastCommit' = lastCommit

CreateAsset(in, fault) ==
    LET r == Create(Store, peopledata, in, fault, clock)
    IN  /\ NextCounterValue(Store) <= CounterFloor + MaxAssets
        /\ Ended(r.status, Call("create", r.asset_id, NoAsset))
        /\ SetStore(r.store)
        /\ issued' = IF r.status = "ok" THEN Append(issued, r.asset_id) ELSE issued
        /\ UNCHANGED <<peopledata, sessions, authVars>>

----------------------------------------------------------------------------
(* AssetRepository.update_assignment *)

\* a DELETE in place of the UPDATE: the record of the old holder is removed
CloseAssignment_Deletes(hist, asset_id, emp, today) ==
    SelectSeq(hist, LAMBDA r : ~ (r.AssetId = asset_id /\ r.EmployeeId = emp /\ r.IsActive))

\* UPDATE assignmenthistory SET ReturnedOn, IsActive = False
\* WHERE AssetId = asset_id AND EmployeeId = emp AND IsActive
CloseAssignment(hist, asset_id, emp, today) ==
    [i \in 1..Len(hist) |->
        IF hist[i].AssetId = asset_id /\ hist[i].EmployeeId = emp /\ hist[i].IsActive
        THEN [hist[i] EXCEPT !.ReturnedOn = today, !.IsActive = FALSE]
        ELSE hist[i]]

\* the ORM writes an attribute at flush only when the value assigned differs
\* from the one the session loaded
Dirty(assigned, loaded, stored) == IF assigned # loaded THEN assigned ELSE stored

\* the writes of update_assignment; seen holds the asset row as the session
\* read it
UpdateAssignmentFlush(s, seen, people, asset_id, new_employee_id, repair_status, today) ==
    LET old_employee_id == seen[asset_id].AssignedTo
        changed == old_employee_id # new_employee_id
        s1 == IF changed /\ Truthy(old_employee_id)
              THEN [s EXCEPT !.assignmenthistory =
                       CloseAssignment(@, asset_id, old_employee_id, today)]
              ELSE s
        s2 == IF changed /\ Truthy(new_employee_id)
              THEN [s1 EXCEPT !.assignmenthistory =
                       Append(@, HistoryRow(asset_id, new_employee_id,
                                 EmployeeNameOf(people, new_employee_id), today))]
              ELSE s1
        s3 == [s2 EXCEPT
                 !.assetdata[asset_id].AssignedTo =
                     Dirty(OrNone(new_employee_id), seen[asset_id].AssignedTo, @),
                 !.assetdata[asset_id].RepairStatus =
                     Dirty(repair_status, seen[asset_id].RepairStatus, @)]
    IN  IF EmployeeFkOk(people, OrNone(new_employee_id))
        THEN [store |-> Commit(s, s3), status |-> "ok"]
        ELSE [store |-> Rollback(s, s3), status |-> "IntegrityError"]

\* an update that does not look the asset up: an unknown asset is treated as
\* one without a holder, and the UPDATE of its row matches nothing
UpdateAssignment_NoLookup(s, people, asset_id, new_employee_id, repair_status, today) ==
    IF asset_id \in DOMAIN s.assetdata
    THEN UpdateAssignmentFlush(s, s.assetdata, people, asset_id, new_employee_id,
                               repair_status, today)
    ELSE IF Truthy(new_employee_id)
    THEN [store |-> Commit(s, [s EXCEPT !.assignmenthistory =
                       Append(@, HistoryRow(asset_id, new_employee_id,
                                 EmployeeNameOf(people, new_employee_id), today))]),
          status |-> "ok"]
    ELSE [store |-> Commit(s, s), status |-> "ok"]

\* an update that does nothing when the holder passed is the holder stored
UpdateAssignment_NoOpSameHolder(s, people, asset_id, new_employee_id, repair_status, today) ==
    IF asset_id \notin DOMAIN s.assetdata
    THEN [store |-> Rollback(s, s), status |-> "AssetNotFound"]
    ELSE IF s.assetdata[asset_id].AssignedTo = new_employee_id
    THEN [store |-> Commit(s, s), status |-> "ok"]
    ELSE UpdateAssignmentFlush(s, s.assetdata, people, asset_id, new_employee_id,
                               repair_status, today)

UpdateAssignment(s, people, asset_id, new_employee_id, repair_status, today) ==
    IF asset_id \notin DOMAIN s.assetdata
    THEN [store |-> Rollback(s, s), status |-> "AssetNotFound"]
    ELSE UpdateAssignmentFlush(s, s.assetdata, people, asset_id, new_employee_id,
                               repair_status, today)

Reassign(a, e, flag) ==
    LET r == UpdateAssignment(Store, peopledata, a, e, flag, clock)
    IN  /\ Ended(r.status, Call("reassign", a, NoAsset))
        /\ SetStore(r.store)
        /\ UNCHANGED <<peopledata, sessions, issued, authVars>>

----------------------------------------------------------------------------
(* AssetRepository.delete_bulk *)

\* get_by_id: the asset with its specifications, or None
GetById(s, asset_id) ==
    IF asset_id \notin DOMAIN s.assetdata THEN [found |-> FALSE]
    ELSE [found |-> TRUE, assetId |-> asset_id,
          serialNumber |-> s.assetdata[asset_id].SerialNo,
          assignedTo |-> s.assetdata[asset_id].AssignedTo,
          repairStatus |-> s.assetdata[asset_id].RepairStatus,
          isTempAsset |-> s.assetdata[asset_id].IsTempAsset,
          specifications |-> SelectSeq(s.specdata, LAMBDA r : r.AssetId = asset_id)]

\* get_available_temp_assets: the ids of the assets of the type that are
\* unassigned, not under repair, not a loaner in use, and not the one excluded
GetAvailableTempAssets(s, asset_type, exclude_asset_id) ==
    {l \in DOMAIN s.assetdata :
        /\ s.assetdata[l].AssetType = asset_type
        /\ s.assetdata[l].AssignedTo = NULL
        /\ l # exclude_asset_id
        /\ ~ s.assetdata[l].RepairStatus
        /\ ~ s.assetdata[l].IsTempAsset}

\* a delete whose cascade misses the repair records that name the asset as loaner
DeleteBulk_NoLoanerCascade(s, asset_ids) ==
    LET gone == asset_ids \cap DOMAIN s.assetdata
        keepA(r) == r.AssetId \notin gone
        s1 == [assetidcounter |-> s.assetidcounter,
               assetdata |-> [a \in DOMAIN s.assetdata \ gone |-> s.assetdata[a]],
               specdata |-> SelectSeq(s.specdata, keepA),
               assignmenthistory |-> SelectSeq(s.assignmenthistory, keepA),
               repairstatustracker |-> SelectSeq(s.repairstatustracker, keepA)]
    IN  [store |-> Commit(s, s1), status |-> "ok", deletedCount |-> Cardinality(gone)]

\* DELETE FROM assetdata WHERE AssetId IN ids, with the ON DELETE CASCADE of
\* specdata, assignmenthistory and repairstatustracker (both references)
DeleteBulk(s, asset_ids) ==
    LET gone == asset_ids \cap DOMAIN s.assetdata
        keepA(r) == r.AssetId \notin gone
        keepR(r) == r.AssetId \notin gone /\ r.TempAssetId \notin gone
        s1 == [assetidcounter |-> s.assetidcounter,
               assetdata |-> [a \in DOMAIN s.assetdata \ gone |-> s.assetdata[a]],
               specdata |-> SelectSeq(s.specdata, keepA),
               assignmenthistory |-> SelectSeq(s.assignmenthistory, keepA),
               repairstatustracker |-> SelectSeq(s.repairstatustracker, keepR)]
    IN  [store |-> Commit(s, s1), status |-> "ok", deletedCount |-> Cardinality(gone)]

DeleteAssets(ids) ==
    LET r == DeleteBulk(Store, ids)
    IN  /\ Ended(r.status, Call("delete", NoAsset, NoAsset))
        /\ SetStore(r.store)
        /\ UNCHANGED <<peopledata, sessions, issued, authVars>>

----------------------------------------------------------------------------
(* start_repair and end_repair.  The file defines both after the class, at   *)
(* module level, with a self parameter; they are modelled as methods of the *)
(* repository, which is how the routes call them.                           *)

\* select(RepairStatusTracker) where AssetId = asset_id and
\* RepairEndTimestamp is NULL, .first(): its position, 0 when there is none
RECURSIVE FirstOpenRepairFrom(_, _, _)
FirstOpenRepairFrom(repairs, asset_id, i) ==
    IF i > Len(repairs) THEN 0
    ELSE IF repairs[i].AssetId = asset_id /\ repairs[i].RepairEndTimestamp = NullTime
    THEN i
    ELSE FirstOpenRepairFrom(repairs, asset_id, i + 1)

FirstOpenRepair(repairs, asset_id) == FirstOpenRepairFrom(repairs, asset_id, 1)

\* the loaner is marked and handed over, with no assignment record
AssignTemp_NoRecord(s, seen, people, temp_asset_id, current_employee_id, now) ==
    [s EXCEPT
        !.assetdata[temp_asset_id].IsTempAsset =
            Dirty(TRUE, seen[temp_asset_id].IsTempAsset, @),
        !.assetdata[temp_asset_id].AssignedTo =
            Dirty(current_employee_id, seen[temp_asset_id].AssignedTo, @)]

\* the loaner is marked, handed to the holder of the asset under repair, and
\* gets a new active assignment record
AssignTemp(s, seen, people, temp_asset_id, current_employee_id, now) ==
    [s EXCEPT
        !.assetdata[temp_asset_id].IsTempAsset =
            Dirty(TRUE, seen[temp_asset_id].IsTempAsset, @),
        !.assetdata[temp_asset_id].AssignedTo =
            Dirty(current_employee_id, seen[temp_asset_id].AssignedTo, @),
        !.assignmenthistory =
            Append(@, HistoryRow(temp_asset_id, current_employee_id,
                                 EmployeeNameOf(people, current_employee_id), now))]

\* start_repair after the asset was found; seen holds the asset row and the
\* loaner row as the session read them
StartRepairFlush(s, seen, people, asset_id, repair_details, temp_asset_id, now) ==
    LET current_employee_id == seen[asset_id].AssignedTo
        s1 == [s EXCEPT !.assetdata[asset_id].RepairStatus =
                            Dirty(TRUE, seen[asset_id].RepairStatus, @)]
        useTemp == Truthy(current_employee_id) /\ TruthyId(temp_asset_id)
    IN  IF useTemp /\ temp_asset_id \notin DOMAIN seen
        THEN [store |-> Rollback(s, s1), status |-> "TempAssetNotFound"]
        ELSE
        LET s2 == IF useTemp
                  THEN AssignTemp(s1, seen, people, temp_asset_id, current_employee_id, now)
                  ELSE s1
            row == RepairRow(asset_id,
                             IF TruthyId(temp_asset_id) THEN temp_asset_id ELSE asset_id,
                             repair_details, now)
            s3 == [s2 EXCEPT !.repairstatustracker = Append(@, row)]
        IN  IF RepairInsertOk(s2, row)
            THEN [store |-> Commit(s, s3), status |-> "ok"]
            ELSE [store |-> Rollback(s, s3), status |-> "IntegrityError"]

\* a start_repair that marks the loaner passed even when the asset has no holder
StartRepair_LoanerAlways(s, people, asset_id, repair_details, temp_asset_id, now) ==
    IF asset_id \notin DOMAIN s.assetdata
    THEN [store |-> Rollback(s, s), status |-> "AssetNotFound"]
    ELSE
    LET r == StartRepairFlush(s, s.assetdata, people, asset_id, repair_details,
                              temp_asset_id, now)
    IN  IF /\ r.status = "ok"
           /\ temp_asset_id \in DOMAIN s.assetdata
           /\ ~ Truthy(s.assetdata[asset_id].AssignedTo)
        THEN [store |-> [r.store EXCEPT !.assetdata[temp_asset_id].IsTempAsset = TRUE],
              status |-> "ok"]
        ELSE r

StartRepair(s, people, asset_id, repair_details, temp_asset_id, now) ==
    IF asset_id \notin DOMAIN s.assetdata
    THEN [store |-> Rollback(s, s), status |-> "AssetNotFound"]
    ELSE StartRepairFlush(s, s.assetdata, people, asset_id, repair_details,
                          temp_asset_id, now)

\* the UPDATE without its AssetId filter: every active record is closed
CloseAllActive_AnyAsset(hist, asset_id, today) ==
    [i \in 1..Len(hist) |->
        IF hist[i].IsActive
        THEN [hist[i] EXCEPT !.ReturnedOn = today, !.IsActive = FALSE]
        ELSE hist[i]]

\* UPDATE assignmenthistory SET ReturnedOn, IsActive = False
\* WHERE AssetId = asset_id AND IsActive
CloseAllActive(hist, asset_id, today) ==
    [i \in 1..Len(hist) |->
        IF hist[i].AssetId = asset_id /\ hist[i].IsActive
        THEN [hist[i] EXCEPT !.ReturnedOn = today, !.IsActive = FALSE]
        ELSE hist[i]]

EndRepair(s, asset_id, now) ==
    IF asset_id \notin DOMAIN s.assetdata
    THEN [store |-> Rollback(s, s), status |-> "AssetNotFound"]
    ELSE
    LET i == FirstOpenRepair(s.repairstatustracker, asset_id)
    IN  IF i = 0
        THEN [store |-> Rollback(s, s), status |-> "NoActiveRepair"]
        ELSE
        LET temp == s.repairstatustracker[i].TempAssetId
            handle == /\ TruthyId(temp) /\ temp # asset_id
                      /\ temp \in DOMAIN s.assetdata
                      /\ s.assetdata[temp].IsTempAsset
            s1 == IF handle /\ Truthy(s.assetdata[temp].AssignedTo)
                  THEN [s EXCEPT !.assignmenthistory = CloseAllActive(@, temp, now)]
                  ELSE s
            s2 == IF handle
                  THEN [s1 EXCEPT !.assetdata[temp].IsTempAsset = FALSE,
                                  !.assetdata[temp].AssignedTo = NULL]
                  ELSE s1
            s3 == [s2 EXCEPT !.repairstatustracker[i].RepairEndTimestamp = now,
                             !.assetdata[asset_id].RepairStatus = FALSE]
        IN  [store |-> Commit(s, s3), status |-> "ok"]

StartRepairCall(a, d, t) ==
    LET r == StartRepair(Store, peopledata, a, d, t, clock)
    IN  /\ Ended(r.status, Call("startRepair", a, t))
        /\ SetStore(r.store)
        /\ UNCHANGED <<peopledata, sessions, issued, authVars>>

EndRepairCall(a) ==
    LET r == EndRepair(Store, a, clock)
    IN  /\ Ended(r.status, Call("endRepair", a, NoAsset))
        /\ SetStore(r.store)
        /\ UNCHANGED <<peopledata, sessions, issued, authVars>>

----------------------------------------------------------------------------
(* AuthService and AuthRepository: login, refresh with rotation, logout.    *)
(* secrets.token_urlsafe(32) is a value no earlier call returned: the n-th  *)
(* token created is the number n.                                           *)

NoToken == 0            \* NULL of authdata.refresh_token, and a missing cookie
ForgedToken == MaxTokens + 1    \* a cookie value that no call created
TickHours == 24         \* the step of the clock of the token code

Usernames == {"alice", "bob", "itadmin"}
Passwords == {"pw-a", "pass123"}
FALLBACK_USERS == ("itadmin" :> "pass123") @@ ("techlead" :> "admin456")
StoreFaults == BOOLEAN  \* session.commit() of a token write raises

AuthRow(username, password) ==
    [username |-> username, password |-> password,
     refresh_token |-> NoToken, refresh_token_expires_at |-> NullTime]

\* verify_user: the id of the row with the username and password, 0 for None
VerifyUser(ad, username, password) ==
    LET hit == {u \in DOMAIN ad : ad[u].username = username /\ ad[u].password = password}
    IN  IF hit = {} THEN 0 ELSE CHOOSE u \in hit : \A v \in hit : u <= v

\* update_refresh_token: the row of the user gets the token and its expiry;
\* False when there is no such row or the commit raised
UpdateRefreshToken(ad, user_id, refresh_token, expires_at, fault) ==
    IF user_id \in DOMAIN ad /\ ~ fault
    THEN [authdata |-> [ad EXCEPT ![user_id].refresh_token = refresh_token,
                                  ![user_id].refresh_token_expires_at = expires_at],
          ok |-> TRUE]
    ELSE [authdata |-> ad, ok |-> FALSE]

\* validate_refresh_token: the id of the user whose row holds the token,
\* unless the row has no expiry or the expiry has passed; 0 for None
ValidateRefreshToken(ad, refresh_token, now) ==
    LET hit == {u \in DOMAIN ad : ad[u].refresh_token = refresh_token}
    IN  IF hit = {} THEN 0
        ELSE LET user == CHOOSE u \in hit : \A v \in hit : u <= v
             IN  IF ad[user].refresh_token_expires_at = NullTime THEN 0
                 ELSE IF ad[user].refresh_token_expires_at < now THEN 0
                 ELSE user

\* invalidate_refresh_token: both columns of the row are set to NULL
InvalidateRefreshToken(ad, user_id, fault) ==
    IF user_id \in DOMAIN ad /\ ~ fault
    THEN [ad EXCEPT ![user_id].refresh_token = NoToken,
                    ![user_id].refresh_token_expires_at = NullTime]
    ELSE ad

\* authenticate: a database user, else a fallback user with user_id 0; the
\* token is stored for a database user only, and the result of the store is
\* not looked at
Authenticate(ad, username, password, new_token, now, fault) ==
    LET db_id == VerifyUser(ad, username, password)
        fallback == /\ db_id = 0
                    /\ username \in DOMAIN FALLBACK_USERS
                    /\ FALLBACK_USERS[username] = password
    IN  IF db_id = 0 /\ ~ fallback
        THEN [ok |-> FALSE, user_id |-> 0, authdata |-> ad, stored |-> FALSE]
        ELSE IF db_id > 0
        THEN LET w == UpdateRefreshToken(ad, db_id, new_token,
                                         now + REFRESH_TOKEN_EXPIRE_HOURS, fault)
             IN  [ok |-> TRUE, user_id |-> db_id, authdata |-> w.authdata,
                  stored |-> w.ok]
        ELSE [ok |-> TRUE, user_id |-> 0, authdata |-> ad, stored |-> FALSE]

\* a refresh without rotation: the token is validated and stays in the row
RefreshTokens_NoRotation(ad, refresh_token, new_token, now, fault) ==
    LET user == ValidateRefreshToken(ad, refresh_token, now)
    IN  [ok |-> user # 0, user_id |-> user, authdata |-> ad, stored |-> user # 0]

\* refresh_tokens: the token is validated, a new one is created and written
\* to the row of the user; the result of the write is not looked at
RefreshTokens(ad, refresh_token, new_token, now, fault) ==
    LET user == ValidateRefreshToken(ad, refresh_token, now)
    IN  IF user = 0
        THEN [ok |-> FALSE, user_id |-> 0, authdata |-> ad, stored |-> FALSE]
        ELSE LET w == UpdateRefreshToken(ad, user, new_token,
                                         now + REFRESH_TOKEN_EXPIRE_HOURS, fault)
             IN  [ok |-> TRUE, user_id |-> user, authdata |-> w.authdata,
                  stored |-> w.ok]

assetVars == <<tables, peopledata, clock, lastCommit, issued, sessions>>

\* the cookie values a client may send: the tokens created so far and one
\* that no call created
CookieArgs == (1..Len(issuedTokens)) \cup {ForgedToken}

\* the token the write replaced in the row of the user, if any
Replaced(ad, user_id) ==
    IF user_id \in DOMAIN ad /\ ad[user_id].refresh_token # NoToken
    THEN {ad[user_id].refresh_token} ELSE {}

\* POST /login
Login(username, password, fault) ==
    LET new_token == Len(issuedTokens) + 1
        r == Authenticate(authdata, username, password, new_token, authNow, fault)
    IN  /\ Len(issuedTokens) < MaxTokens
        /\ r.ok
        /\ authdata' = r.authdata
        /\ issuedTokens' = Append(issuedTokens, r.user_id)
        /\ retiredTokens' = IF r.stored
                            THEN retiredTokens \cup Replaced(authdata, r.user_id)
                            ELSE retiredTokens
        /\ lastAuth' = [op |-> "login", token |-> NoToken, accepted |-> TRUE]
        /\ UNCHANGED <<authNow, assetVars>>

\* POST /refresh with a refresh cookie
Refresh(refresh_token, fault) ==
    LET new_token == Len(issuedTokens) + 1
        r == RefreshTokens(authdata, refresh_token, new_token, authNow, fault)
    IN  IF r.ok
        THEN /\ Len(issuedTokens) < MaxTokens
             /\ authdata' = r.authdata
             /\ issuedTokens' = Append(issuedTokens, r.user_id)
             /\ retiredTokens' = IF r.stored
                                 THEN retiredTokens \cup {refresh_token}
                                 ELSE retiredTokens
             /\ lastAuth' = [op |-> "refresh", token |-> refresh_token,
                             accepted |-> TRUE]
             /\ UNCHANGED <<authNow, assetVars>>
        ELSE /\ lastAuth' = [op |-> "refresh", token |-> refresh_token,
                             accepted |-> FALSE]
             /\ UNCHANGED <<authdata, issuedTokens, retiredTokens, authNow, assetVars>>

\* POST /logout with a refresh cookie: the token is validated and the row of
\* its user is cleared; the answer is a success in every case
Logout(refresh_token, fault) ==
    LET user == ValidateRefreshToken(authdata, refresh_token, authNow)
    IN  /\ authdata' = IF user > 0
                       THEN InvalidateRefreshToken(authdata, user, fault)
                       ELSE authdata
        /\ retiredTokens' = IF user > 0 /\ ~ fault
                            THEN retiredTokens \cup {refresh_token}
                            ELSE retiredTokens
        /\ lastAuth' = [op |-> "logout", token |-> refresh_token,
                        accepted |-> user > 0]
        /\ UNCHANGED <<issuedTokens, authNow, assetVars>>

\* time passes
Tick ==
    /\ authNow < MaxTicks * TickHours
    /\ authNow' = authNow + TickHours
    /\ UNCHANGED <<authdata, issuedTokens, retiredTokens, lastAuth, assetVars>>

NextAuth ==
    \/ \E username \in Usernames, password \in Passwords, fault \in StoreFaults :
           Login(username, password, fault)
    \/ \E t \in CookieArgs, fault \in StoreFaults : Refresh(t, fault)
    \/ \E t \in CookieArgs, fault \in StoreFaults : Logout(t, fault)
    \/ Tick

----------------------------------------------------------------------------
(* Specification: every call runs to completion *)

IdleSession == [pc |-> "idle", value |-> 0, counterNew |-> FALSE, input |-> << >>]

Init ==
    /\ assetidcounter \in { << >>, << [id |-> 1, current_value |-> CounterFloor] >> }
    /\ assetdata = << >>
    /\ specdata = << >>
    /\ assignmenthistory = << >>
    /\ repairstatustracker = << >>
    /\ peopledata = ("E1" :> "Alice") @@ ("E2" :> "Bob")
    /\ clock = 1
    /\ lastCommit = Call("none", NoAsset, NoAsset)
    /\ issued = << >>
    /\ sessions = [p \in Sessions |-> IdleSession]
    /\ authdata = (1 :> AuthRow("alice", "pw-a")) @@ (2 :> AuthRow("bob", "pw-a"))
    /\ issuedTokens = << >>
    /\ retiredTokens = {}
    /\ authNow = 0
    /\ lastAuth = [op |-> "none", token |-> NoToken, accepted |-> FALSE]

\* the asset ids a request may name: the stored ones and one that is not
AssetArgs == DOMAIN assetdata \cup {UnknownAsset}

Next ==
    \/ \E in \in CreateInputs : \E fault \in FaultsFor(in) : CreateAsset(in, fault)
    \/ \E a \in AssetArgs, e \in EmployeeArgs, flag \in BOOLEAN : Reassign(a, e, flag)
    \/ \E ids \in SUBSET AssetArgs : DeleteAssets(ids)
    \/ \E a \in AssetArgs, d \in Details, t \in AssetArgs \cup {NoAsset} :
           StartRepairCall(a, d, t)
    \/ \E a \in AssetArgs : EndRepairCall(a)

Spec == Init /\ [][Next]_vars

----------------------------------------------------------------------------
(* Specification: two sessions run create concurrently.  autoflush is off, *)
(* so a session sends nothing to the store before commit(): the call reads  *)
(* the counter row, computes the identifier in memory, and writes the       *)
(* counter value it computed together with the new rows when it commits.    *)

CreateRead(p, in) ==
    /\ sessions[p].pc = "idle"
    /\ NextCounterValue(Store) <= CounterFloor + MaxAssets
    /\ sessions' = [sessions EXCEPT ![p] =
                       [pc |-> "generated", value |-> NextCounterValue(Store),
                        counterNew |-> (assetidcounter = << >>), input |-> in]]
    /\ UNCHANGED <<tables, peopledata, clock, lastCommit, issued, authVars>>

CreateCommit(p) ==
    /\ sessions[p].pc = "generated"
    /\ LET me == sessions[p]
           f == CreateFlush(Store, peopledata, me.input, me.value, "none", clock)
           \* the counter row this session adds is refused when another session
           \* has inserted it in the meantime
           status == IF me.counterNew /\ assetidcounter # << >>
                     THEN "IntegrityError" ELSE f.status
           store == IF status = "ok" THEN Commit(Store, f.store)
                    ELSE Rollback(Store, f.store)
       IN  /\ Ended(status, Call("create", AssetIdOf(me.value), NoAsset))
           /\ SetStore(store)
           /\ issued' = IF status = "ok" THEN Append(issued, AssetIdOf(me.value))
                        ELSE issued
    /\ sessions' = [sessions EXCEPT ![p] = IdleSession]
    /\ UNCHANGED <<peopledata, authVars>>

NextConc ==
    \/ \E p \in Sessions, in \in CreateInputs : CreateRead(p, in)
    \/ \E p \in Sessions : CreateCommit(p)

SpecConc == Init /\ [][NextConc]_vars

----------------------------------------------------------------------------
(* Properties *)

\* positions of the active assignment records of an asset
ActiveRows(s, a) ==
    {i \in 1..Len(s.assignmenthistory) :
        s.assignmenthistory[i].AssetId = a /\ s.assignmenthistory[i].IsActive}

\* positions of the open repair records of an asset
OpenRepairs(s, a) ==
    {i \in 1..Len(s.repairstatustracker) :
        /\ s.repairstatustracker[i].AssetId = a
        /\ s.repairstatustracker[i].RepairEndTimestamp = NullTime}

\* C1: after any sequence of create, reassign, start_repair, end_repair and
\* delete calls, every asset has at most one active assignment record.
C1_AtMostOneActiveAssignment ==
    \A a \in DOMAIN assetdata : Cardinality(ActiveRows(Store, a)) <= 1

\* C2: every asset has at most one repair record whose end timestamp is null.
C2_AtMostOneOpenRepair ==
    \A a \in DOMAIN assetdata : Cardinality(OpenRepairs(Store, a)) <= 1

\* C3: start_repair on an asset that already has an open repair record fails
\* and leaves repair records, assets and the assignment ledger unchanged.
C3_StartRepairWhileOpenFails ==
    \A a \in DOMAIN assetdata, d \in Details, t \in AssetArgs \cup {NoAsset} :
        OpenRepairs(Store, a) # {} =>
            LET r == StartRepair(Store, peopledata, a, d, t, clock)
            IN  r.status # "ok" /\ r.store = Store

C5_NoSharedIdentifier ==
    \A p \in Sessions :
        sessions[p].pc = "generated" =>
            /\ \A q \in Sessions \ {p} :
                  sessions[q].pc = "generated" => sessions[q].value # sessions[p].value
            /\ \A i \in 1..Len(issued) : issued[i] # AssetIdOf(sessions[p].value)

\* rows of the store that belong to an asset id
RowsOf(s, asset_id) ==
    [asset |-> IF asset_id \in DOMAIN s.assetdata THEN 1 ELSE 0,
     specs |-> Len(SelectSeq(s.specdata, LAMBDA r : r.AssetId = asset_id)),
     history |-> Len(SelectSeq(s.assignmenthistory, LAMBDA r : r.AssetId = asset_id))]

NoRows == [asset |-> 0, specs |-> 0, history |-> 0]

\* C6: a create that fails at any step after the identifier is generated
\* leaves no asset row, no specification row and no assignment record for
\* that identifier.
C6_CreateAllOrNothing ==
    \A in \in CreateInputs, fault \in Faults :
        LET r == Create(Store, peopledata, in, fault, clock)
        IN  r.status # "ok" => RowsOf(r.store, r.asset_id) = NoRows

\* a create has committed, and a further create would fail after its asset
\* and specification rows were written
C6_Witness ==
    /\ lastCommit.op = "create"
    /\ \E in \in CreateInputs :
          LET v == NextCounterValue(Store)
              f == CreateFlush(Store, peopledata, in, v, "history", clock)
          IN  /\ f.status = "StoreError"
              /\ RowsOf(f.store, AssetIdOf(v)).specs > 0
              /\ Create(Store, peopledata, in, "history", clock).status = "StoreError"

\* the outcomes of end_repair that report a missing asset or repair
NotFound == {"AssetNotFound", "NoActiveRepair"}

\* C7: when start_repair(A, d, L) succeeds on a held asset A with a distinct
\* stored loaner L and end_repair(A) then succeeds, L is no loaner in use, has
\* no holder and no active assignment record, A is not under repair, and the
\* repair record the start opened has an end timestamp.
C7_RepairRoundTrip ==
    \A a \in DOMAIN assetdata, d \in Details : \A l \in DOMAIN assetdata \ {a} :
        LET r1 == StartRepair(Store, peopledata, a, d, l, clock)
            r2 == EndRepair(r1.store, a, clock + 1)
            opened == Len(r1.store.repairstatustracker)
        IN  (Truthy(assetdata[a].AssignedTo) /\ r1.status = "ok" /\ r2.status = "ok") =>
                /\ ~ r2.store.assetdata[l].IsTempAsset
                /\ r2.store.assetdata[l].AssignedTo = NULL
                /\ ActiveRows(r2.store, l) = {}
                /\ ~ r2.store.assetdata[a].RepairStatus
                /\ r2.store.repairstatustracker[opened].RepairEndTimestamp # NullTime

\* C7 where A has no open repair record before the start
C7_WithoutEarlierOpenRepair ==
    \A a \in DOMAIN assetdata, d \in Details : \A l \in DOMAIN assetdata \ {a} :
        LET r1 == StartRepair(Store, peopledata, a, d, l, clock)
            r2 == EndRepair(r1.store, a, clock + 1)
            opened == Len(r1.store.repairstatustracker)
        IN  (/\ OpenRepairs(Store, a) = {}
             /\ Truthy(assetdata[a].AssignedTo)
             /\ r1.status = "ok" /\ r2.status = "ok") =>
                /\ ~ r2.store.assetdata[l].IsTempAsset
                /\ r2.store.assetdata[l].AssignedTo = NULL
                /\ ActiveRows(r2.store, l) = {}
                /\ ~ r2.store.assetdata[a].RepairStatus
                /\ r2.store.repairstatustracker[opened].RepairEndTimestamp # NullTime

\* C8: a successful start_repair(A, d, L) on an asset A held by E with a
\* stored loaner L sets A under repair, marks L as a loaner in use held by E,
\* adds one active assignment record (L, E) and one open repair record (A, L),
\* and changes no other record.
C8_StartRepairEffects ==
    \A a \in DOMAIN assetdata, d \in Details, l \in DOMAIN assetdata :
        LET e == assetdata[a].AssignedTo
            r == StartRepair(Store, peopledata, a, d, l, clock)
            hist == r.store.assignmenthistory
            reps == r.store.repairstatustracker
        IN  (Truthy(e) /\ r.status = "ok") =>
                /\ r.store.assetdata[a].RepairStatus
                /\ r.store.assetdata[l].IsTempAsset
                /\ r.store.assetdata[l].AssignedTo = e
                /\ Len(hist) = Len(assignmenthistory) + 1
                /\ SubSeq(hist, 1, Len(assignmenthistory)) = assignmenthistory
                /\ hist[Len(hist)].AssetId = l
                /\ hist[Len(hist)].EmployeeId = e
                /\ hist[Len(hist)].IsActive
                /\ Len(reps) = Len(repairstatustracker) + 1
                /\ SubSeq(reps, 1, Len(repairstatustracker)) = repairstatustracker
                /\ reps[Len(reps)].AssetId = a
                /\ reps[Len(reps)].TempAssetId = l
                /\ reps[Len(reps)].RepairEndTimestamp = NullTime

\* the last commit was a start_repair that handed a loaner to the holder of
\* the asset under repair
C8_Witness ==
    /\ lastCommit.op = "startRepair"
    /\ lastCommit.asset \in DOMAIN assetdata
    /\ lastCommit.temp \in DOMAIN assetdata
    /\ Truthy(assetdata[lastCommit.asset].AssignedTo)
    /\ assetdata[lastCommit.asset].RepairStatus
    /\ assetdata[lastCommit.temp].IsTempAsset
    /\ assetdata[lastCommit.temp].AssignedTo = assetdata[lastCommit.asset].AssignedTo
    /\ OpenRepairs(Store, lastCommit.asset) # {}

\* C9: end_repair(A) reports not-found and changes nothing when A is not
\* stored or has no open repair record; an end_repair(A) directly after a
\* successful one reports not-found and changes nothing.
C9_EndRepairNotFound ==
    /\ \A a \in AssetArgs :
          (a \notin DOMAIN assetdata \/ OpenRepairs(Store, a) = {}) =>
              LET r == EndRepair(Store, a, clock)
              IN  r.status \in NotFound /\ r.store = Store
    /\ \A a \in DOMAIN assetdata :
          LET r1 == EndRepair(Store, a, clock)
              r2 == EndRepair(r1.store, a, clock + 1)
          IN  r1.status = "ok" => (r2.status \in NotFound /\ r2.store = r1.store)

\* C9 where A has at most one open repair record
C9_WithOneOpenRepair ==
    /\ \A a \in AssetArgs :
          (a \notin DOMAIN assetdata \/ OpenRepairs(Store, a) = {}) =>
              LET r == EndRepair(Store, a, clock)
              IN  r.status \in NotFound /\ r.store = Store
    /\ \A a \in DOMAIN assetdata :
          LET r1 == EndRepair(Store, a, clock)
              r2 == EndRepair(r1.store, a, clock + 1)
          IN  (Cardinality(OpenRepairs(Store, a)) = 1 /\ r1.status = "ok") =>
                  (r2.status \in NotFound /\ r2.store = r1.store)

\* the effect C10 states of update_assignment(a, e2, flag) on the ledger
ReassignEffect(a, e2, flag) ==
    LET e1 == assetdata[a].AssignedTo
        r == UpdateAssignment(Store, peopledata, a, e2, flag, clock)
        before == assignmenthistory
        after == r.store.assignmenthistory
    IN  /\ r.status = "ok"
        /\ Len(after) = Len(before) + 1
        /\ \A i \in 1..Len(before) :
              (before[i].AssetId = a /\ before[i].EmployeeId = e1 /\ before[i].IsActive)
                  => (~ after[i].IsActive /\ after[i].ReturnedOn = clock)
        /\ ActiveRows(r.store, a) = {Len(after)}
        /\ after[Len(after)].EmployeeId = e2
        /\ after[Len(after)].AssignedOn = clock

\* A is held by the employee e1, who is not e2, with an active record
HeldByOther(a, e2) ==
    LET e1 == assetdata[a].AssignedTo
    IN  /\ e1 \in DOMAIN peopledata
        /\ e1 # e2
        /\ \E i \in ActiveRows(Store, a) : assignmenthistory[i].EmployeeId = e1

\* C10: update_assignment(A, E2, flag) on an asset held by E1, with E1 # E2
\* both employees and an active record (A, E1), closes that record with
\* ReturnedOn = today and leaves one active record for A: a new one, after
\* the closed one, for (A, E2) dated today.
C10_ReassignClosesThenOpens ==
    \A a \in DOMAIN assetdata, e2 \in DOMAIN peopledata, flag \in BOOLEAN :
        HeldByOther(a, e2) => ReassignEffect(a, e2, flag)

\* C10 where A has one active record before the call
C10_WithOneActiveRecord ==
    \A a \in DOMAIN assetdata, e2 \in DOMAIN peopledata, flag \in BOOLEAN :
        (HeldByOther(a, e2) /\ Cardinality(ActiveRows(Store, a)) = 1)
            => ReassignEffect(a, e2, flag)

\* the repair records that name an asset, as the asset repaired or as loaner
RepairsNaming(s, asset_id) ==
    {i \in 1..Len(s.repairstatustracker) :
        \/ s.repairstatustracker[i].AssetId = asset_id
        \/ s.repairstatustracker[i].TempAssetId = asset_id}

\* C11: after delete_bulk(ids) the store holds no asset row, specification
\* row, assignment record or repair record for any id in ids, get_by_id of
\* such an id finds nothing, and the assets not in ids keep their rows.
C11_DeleteCascades ==
    \A ids \in SUBSET AssetArgs :
        LET r == DeleteBulk(Store, ids)
        IN  r.status = "ok" =>
                /\ \A id \in ids :
                      /\ RowsOf(r.store, id) = NoRows
                      /\ RepairsNaming(r.store, id) = {}
                      /\ ~ GetById(r.store, id).found
                /\ \A a \in DOMAIN assetdata \ ids :
                      /\ a \in DOMAIN r.store.assetdata
                      /\ r.store.assetdata[a] = assetdata[a]

\* a delete has committed: an issued asset is gone with every row that named
\* it, and another asset is still stored with an assignment record
C11_Witness ==
    /\ lastCommit.op = "delete"
    /\ \E i \in 1..Len(issued) :
          /\ issued[i] \notin DOMAIN assetdata
          /\ RowsOf(Store, issued[i]) = NoRows
          /\ RepairsNaming(Store, issued[i]) = {}
    /\ \E a \in DOMAIN assetdata : RowsOf(Store, a).history > 0

----------------------------------------------------------------------------
(* Specification: the creates of two sessions interleave with deletes *)

NextConcDelete ==
    \/ \E p \in Sessions, in \in CreateInputs : CreateRead(p, in)
    \/ \E p \in Sessions : CreateCommit(p)
    \/ \E ids \in SUBSET AssetArgs : DeleteAssets(ids)

SpecConcDelete == Init /\ [][NextConcDelete]_vars

\* C12: an identifier a committed create returned is returned by no later
\* create, also after the asset was deleted.
C12_NeverReissued ==
    \A i \in 1..Len(issued) : \A j \in 1..Len(issued) :
        i < j => issued[i] # issued[j]

\* the (serial, brand, type) of a row or of a request
TripleOf(serial, brand, type) == <<serial, brand, type>>

RowTriple(row) == TripleOf(row.SerialNo, row.Brand, row.AssetType)

\* a stored asset has the triple of the request
TripleTaken(in) ==
    \E a \in DOMAIN assetdata :
        RowTriple(assetdata[a]) = TripleOf(in.serialNumber, in.brand, in.assetType)

\* C13: no two stored assets have the same (SerialNo, Brand, AssetType), and
\* a create whose triple is that of a stored asset fails, with an integrity
\* error when its dates parse, and adds no asset, specification or
\* assignment row.
C13_TripleUnique ==
    /\ \A a \in DOMAIN assetdata : \A b \in DOMAIN assetdata \ {a} :
          RowTriple(assetdata[a]) # RowTriple(assetdata[b])
    /\ \A in \in CreateInputs :
          TripleTaken(in) =>
              LET r == Create(Store, peopledata, in, "none", clock)
              IN  /\ r.status # "ok"
                  /\ IsIsoDate(in.purchaseDate) => r.status = "IntegrityError"
                  /\ r.store.assetdata = assetdata
                  /\ r.store.specdata = specdata
                  /\ r.store.assignmenthistory = assignmenthistory

\* an asset is stored after a create, and a further create with its triple,
\* otherwise acceptable, is refused
C13_Witness ==
    /\ lastCommit.op = "create"
    /\ lastCommit.asset \in DOMAIN assetdata
    /\ NextCounterValue(Store) <= CounterFloor + MaxAssets
    /\ \E in \in CreateInputs :
          /\ TripleTaken(in)
          /\ IsIsoDate(in.purchaseDate)
          /\ EmployeeFkOk(peopledata, OrNone(in.assignedTo))
          /\ Create(Store, peopledata, in, "none", clock).status = "IntegrityError"

\* asset ids that name no stored asset: one never issued, and the issued
\* ones that were deleted
MissingAssets ==
    ({UnknownAsset} \cup {issued[i] : i \in 1..Len(issued)}) \ DOMAIN assetdata

\* C14: update_assignment on an asset id that is not stored reports
\* not-found and leaves every table as it was.
C14_ReassignUnknownAsset ==
    \A a \in MissingAssets, e \in EmployeeArgs, flag \in BOOLEAN :
        LET r == UpdateAssignment(Store, peopledata, a, e, flag, clock)
        IN  r.status = "AssetNotFound" /\ r.store = Store

\* an asset with an active assignment record is stored and another issued
\* asset was deleted: an update of the deleted one is the case of C14
C14_Witness ==
    /\ \E a \in DOMAIN assetdata : ActiveRows(Store, a) # {}
    /\ UpdateAssignment(Store, peopledata, UnknownAsset, "E1", TRUE, clock).status
           = "AssetNotFound"
    /\ \E i \in 1..Len(issued) :
          /\ issued[i] \in MissingAssets
          /\ UpdateAssignment(Store, peopledata, issued[i], "E1", TRUE, clock).status
                 = "AssetNotFound"

\* C15: start_repair(A, d, L) on a held asset A with a loaner id L that is
\* not stored fails and leaves every table as it was: A's repair flag, the
\* repair records and the assignment ledger.
C15_StartRepairUnknownLoaner ==
    \A a \in DOMAIN assetdata, d \in Details, l \in MissingAssets :
        Truthy(assetdata[a].AssignedTo) =>
            LET r == StartRepair(Store, peopledata, a, d, l, clock)
            IN  /\ r.status = "TempAssetNotFound"
                /\ r.store.assetdata[a].RepairStatus = assetdata[a].RepairStatus
                /\ r.store.repairstatustracker = repairstatustracker
                /\ r.store.assignmenthistory = assignmenthistory
                /\ r.store = Store

\* a held asset that is not under repair is stored, and a start_repair with
\* an unknown loaner id is refused
C15_Witness ==
    \E a \in DOMAIN assetdata :
        /\ Truthy(assetdata[a].AssignedTo)
        /\ ~ assetdata[a].RepairStatus
        /\ ActiveRows(Store, a) # {}
        /\ StartRepair(Store, peopledata, a, "screen crack", UnknownAsset, clock).status
               = "TempAssetNotFound"

----------------------------------------------------------------------------
(* Specification: update_assignment and start_repair calls of two sessions  *)
(* interleave.  A call reads the asset (and the loaner) in its session, and *)
(* its writes reach the store when it commits.                              *)

\* the rows of the store a session has read
Seen(ids) == [x \in ids \cap DOMAIN assetdata |-> assetdata[x]]

\* a call that still can commit begins; the sessions are interchangeable, so
\* the second one is used only while the first is busy
MayBegin(p) ==
    /\ sessions[p].pc = "idle"
    /\ clock <= MaxCommits
    /\ p = "s2" => sessions["s1"].pc # "idle"

AssignBegin(p, a, e, flag) ==
    /\ MayBegin(p)
    /\ a \in DOMAIN assetdata
    /\ sessions' = [sessions EXCEPT ![p] =
                       [pc |-> "reassign", value |-> 0, counterNew |-> FALSE,
                        input |-> [asset |-> a, new |-> e, flag |-> flag,
                                   seen |-> Seen({a})]]]
    /\ UNCHANGED <<tables, peopledata, clock, lastCommit, issued, authVars>>

AssignCommit(p) ==
    /\ sessions[p].pc = "reassign"
    /\ LET in == sessions[p].input
           r == UpdateAssignmentFlush(Store, in.seen, peopledata, in.asset,
                                      in.new, in.flag, clock)
       IN  /\ Ended(r.status, Call("reassign", in.asset, NoAsset))
           /\ SetStore(r.store)
    /\ sessions' = [sessions EXCEPT ![p] = IdleSession]
    /\ UNCHANGED <<peopledata, issued, authVars>>

RepairBegin(p, a, d, t) ==
    /\ MayBegin(p)
    /\ a \in DOMAIN assetdata
    /\ sessions' = [sessions EXCEPT ![p] =
                       [pc |-> "startRepair", value |-> 0, counterNew |-> FALSE,
                        input |-> [asset |-> a, details |-> d, temp |-> t,
                                   seen |-> IF Truthy(assetdata[a].AssignedTo)
                                            THEN Seen({a, t}) ELSE Seen({a})]]]
    /\ UNCHANGED <<tables, peopledata, clock, lastCommit, issued, authVars>>

RepairCommit(p) ==
    /\ sessions[p].pc = "startRepair"
    /\ LET in == sessions[p].input
           r == StartRepairFlush(Store, in.seen, peopledata, in.asset,
                                 in.details, in.temp, clock)
       IN  /\ Ended(r.status, Call("startRepair", in.asset, in.temp))
           /\ SetStore(r.store)
    /\ sessions' = [sessions EXCEPT ![p] = IdleSession]
    /\ UNCHANGED <<peopledata, issued, authVars>>

\* the requests that set the assets up: accepted dates, known employees
SetupInputs ==
    {in \in CreateInputs :
        /\ IsIsoDate(in.purchaseDate)
        /\ ~ in.repairStatus
        /\ EmployeeFkOk(peopledata, OrNone(in.assignedTo))}

\* a create runs while no other call is open: it writes no row another call
\* reads, so its place among their steps does not matter
SetupAsset(in) ==
    /\ \A p \in Sessions : sessions[p].pc = "idle"
    /\ CreateAsset(in, "none")

NextConcAssign ==
    \/ \E in \in SetupInputs : SetupAsset(in)
    \/ \E p \in Sessions, a \in AssetArgs, e \in EmployeeArgs, flag \in BOOLEAN :
           AssignBegin(p, a, e, flag)
    \/ \E p \in Sessions : AssignCommit(p)
    \/ \E p \in Sessions, a \in AssetArgs, d \in Details, t \in AssetArgs \cup {NoAsset} :
           RepairBegin(p, a, d, t)
    \/ \E p \in Sessions : RepairCommit(p)

SpecConcAssign == Init /\ [][NextConcAssign]_vars

\* the ledger of an asset agrees with its holder: at most one active
\* assignment record, and that one for the employee the asset is assigned to
LedgerAgrees(a) ==
    /\ Cardinality(ActiveRows(Store, a)) <= 1
    /\ \A i \in ActiveRows(Store, a) :
          assignmenthistory[i].EmployeeId = assetdata[a].AssignedTo

\* C16: interleaved update_assignment and start_repair calls reach no state
\* with two active assignment records for one asset or an active record for
\* an employee who does not hold the asset.  Assets that start_repair marked
\* as loaners are left out: the hand-over of a loaner breaks this without any
\* interleaving (C1).
C16_InterleavedAssignments ==
    \A a \in DOMAIN assetdata : ~ assetdata[a].IsTempAsset => LedgerAgrees(a)

C18_RepairWithoutLoaner ==
    \A a \in DOMAIN assetdata, d \in Details :
        OpenRepairs(Store, a) = {} =>
            LET r == StartRepair(Store, peopledata, a, d, NoAsset, clock)
                reps == r.store.repairstatustracker
            IN  /\ r.status = "ok"
                /\ Len(reps) = Len(repairstatustracker) + 1
                /\ reps[Len(reps)].AssetId = a
                /\ reps[Len(reps)].TempAssetId = a
                /\ reps[Len(reps)].RepairEndTimestamp = NullTime

\* the repair records in which the asset is its own loaner
SelfRepairs(s) ==
    {i \in 1..Len(s.repairstatustracker) :
        s.repairstatustracker[i].AssetId = s.repairstatustracker[i].TempAssetId}

\* C19: no repair record names the asset as its own loaner, and
\* start_repair(A, d, A) on a held asset fails and leaves A unmarked: not a
\* loaner in use, with no new assignment record and no repair record.
C19_LoanerIsAnotherAsset ==
    /\ SelfRepairs(Store) = {}
    /\ \A a \in DOMAIN assetdata, d \in Details :
          Truthy(assetdata[a].AssignedTo) =>
              LET r == StartRepair(Store, peopledata, a, d, a, clock)
              IN  /\ r.status = "IntegrityError"
                  /\ r.store.assetdata[a].IsTempAsset = assetdata[a].IsTempAsset
                  /\ r.store.assignmenthistory = assignmenthistory
                  /\ SelfRepairs(r.store) = {}

\* a loaner was put into use by the last commit, for another asset, and a
\* start_repair of that held asset with itself as loaner is refused
C19_Witness ==
    /\ lastCommit.op = "startRepair"
    /\ lastCommit.asset \in DOMAIN assetdata
    /\ lastCommit.temp \in DOMAIN assetdata
    /\ lastCommit.temp # lastCommit.asset
    /\ assetdata[lastCommit.temp].IsTempAsset
    /\ Truthy(assetdata[lastCommit.asset].AssignedTo)
    /\ StartRepair(Store, peopledata, lastCommit.asset, "screen crack",
                   lastCommit.asset, clock).status = "IntegrityError"

\* C20: update_assignment(A, h, flag) on a stored asset, h an employee of the
\* directory or none, succeeds with AssignedTo = h and RepairStatus = flag
\* whatever they were before; when h is the holder stored, the assignment
\* records are left as they are.
C20_ReassignOverwrites ==
    \A a \in DOMAIN assetdata, h \in EmployeeArgs, flag \in BOOLEAN :
        LET r == UpdateAssignment(Store, peopledata, a, h, flag, clock)
        IN  /\ EmployeeFkOk(peopledata, OrNone(h)) =>
                  /\ r.status = "ok"
                  /\ r.store.assetdata[a].AssignedTo = h
                  /\ r.store.assetdata[a].RepairStatus = flag
            /\ h = assetdata[a].AssignedTo =>
                  r.store.assignmenthistory = assignmenthistory

\* the last commit was an update_assignment of a held asset that left the
\* active record of its holder, opened by an earlier commit, as it was; the
\* same call with the other flag overwrites the flag and nothing else
C20_Witness ==
    /\ lastCommit.op = "reassign"
    /\ lastCommit.asset \in DOMAIN assetdata
    /\ LET a == lastCommit.asset
           h == assetdata[a].AssignedTo
           r == UpdateAssignment(Store, peopledata, a, h, ~ assetdata[a].RepairStatus, clock)
       IN  /\ h \in DOMAIN peopledata
           /\ assetdata[a].RepairStatus
           /\ OpenRepairs(Store, a) = {}
           /\ \E i \in ActiveRows(Store, a) :
                 /\ assignmenthistory[i].EmployeeId = h
                 /\ assignmenthistory[i].AssignedOn < clock - 1
           /\ r.status = "ok"
           /\ r.store.assetdata[a].RepairStatus # assetdata[a].RepairStatus
           /\ r.store.assignmenthistory = assignmenthistory

\* C21: start_repair(A, d, L) on a stored asset A without a holder, L another
\* stored asset, succeeds and skips the loaner: the row of L and all
\* assignment records are unchanged, A.RepairStatus is true and one open
\* repair record (A, L, d) is added.
C21_NoHolderSkipsLoaner ==
    \A a \in DOMAIN assetdata, d \in Details :
        \A l \in DOMAIN assetdata \ {a} :
            ~ Truthy(assetdata[a].AssignedTo) =>
                LET r == StartRepair(Store, peopledata, a, d, l, clock)
                IN  /\ r.status = "ok"
                    /\ r.store.assetdata[l] = assetdata[l]
                    /\ r.store.assignmenthistory = assignmenthistory
                    /\ r.store.assetdata[a].RepairStatus
                    /\ r.store.repairstatustracker =
                           Append(repairstatustracker, RepairRow(a, l, d, clock))

\* the last commit was a start_repair of an asset without a holder that named
\* another stored asset as loaner; the loaner is unmarked and has no holder
C21_Witness ==
    /\ lastCommit.op = "startRepair"
    /\ lastCommit.asset \in DOMAIN assetdata
    /\ lastCommit.temp \in DOMAIN assetdata
    /\ lastCommit.temp # lastCommit.asset
    /\ ~ Truthy(assetdata[lastCommit.asset].AssignedTo)
    /\ assetdata[lastCommit.asset].RepairStatus
    /\ ~ assetdata[lastCommit.temp].IsTempAsset
    /\ ~ Truthy(assetdata[lastCommit.temp].AssignedTo)
    /\ ActiveRows(Store, lastCommit.temp) = {}
    /\ \E i \in OpenRepairs(Store, lastCommit.asset) :
          /\ repairstatustracker[i].TempAssetId = lastCommit.temp
          /\ repairstatustracker[i].RepairStartTimestamp = clock - 1

\* the assignment records of an asset, in the order they were written
HistoryOf(s, asset_id) ==
    SelectSeq(s.assignmenthistory, LAMBDA r : r.AssetId = asset_id)

\* the holder and the assignment records of asset a are the same in s and t
OwnLedgerSame(s, t, a) ==
    /\ t.assetdata[a].AssignedTo = s.assetdata[a].AssignedTo
    /\ HistoryOf(t, a) = HistoryOf(s, a)

\* C22: start_repair(A, d, L) with L another stored asset, and the
\* end_repair(A) that follows, succeed and leave AssignedTo of A and the
\* assignment records of A as they were; so does end_repair(A) in any state
\* where A has an open repair.
C22_OwnAssignmentUntouched ==
    \A a \in DOMAIN assetdata, d \in Details :
        /\ \A l \in DOMAIN assetdata \ {a} :
              LET r1 == StartRepair(Store, peopledata, a, d, l, clock)
                  r2 == EndRepair(r1.store, a, clock + 1)
              IN  /\ r1.status = "ok" /\ OwnLedgerSame(Store, r1.store, a)
                  /\ r2.status = "ok" /\ OwnLedgerSame(Store, r2.store, a)
        /\ OpenRepairs(Store, a) # {} =>
              LET r == EndRepair(Store, a, clock)
              IN  r.status = "ok" /\ OwnLedgerSame(Store, r.store, a)

\* the last commit was an end_repair of a held asset that released a loaner:
\* the record of the loaner was closed by it, the active record of the asset,
\* older than the repair, is still active for its holder
C22_Witness ==
    /\ lastCommit.op = "endRepair"
    /\ lastCommit.asset \in DOMAIN assetdata
    /\ LET a == lastCommit.asset
           h == assetdata[a].AssignedTo
       IN  /\ h \in DOMAIN peopledata
           /\ \E i \in ActiveRows(Store, a) :
                 /\ assignmenthistory[i].EmployeeId = h
                 /\ assignmenthistory[i].AssignedOn < clock - 2
           /\ \E j \in 1..Len(repairstatustracker) :
                 /\ repairstatustracker[j].AssetId = a
                 /\ repairstatustracker[j].TempAssetId # a
                 /\ repairstatustracker[j].RepairEndTimestamp = clock - 1
                 /\ \E k \in 1..Len(assignmenthistory) :
                       /\ assignmenthistory[k].AssetId = repairstatustracker[j].TempAssetId
                       /\ assignmenthistory[k].EmployeeId = h
                       /\ ~ assignmenthistory[k].IsActive
                       /\ assignmenthistory[k].ReturnedOn = clock - 1

\* the step is a committed delete_bulk
DeleteStep == lastCommit'.op = "delete" /\ clock' = clock + 1

\* every assignment record stays at its place with its asset, employee,
\* captured name and assigned-on date; a closed record stays as it is
HistoryKept ==
    /\ Len(assignmenthistory') >= Len(assignmenthistory)
    /\ \A i \in 1..Len(assignmenthistory) :
          LET old == assignmenthistory[i]
              new == assignmenthistory'[i]
          IN  /\ new.AssetId = old.AssetId
              /\ new.EmployeeId = old.EmployeeId
              /\ new.EmployeeName = old.EmployeeName
              /\ new.AssignedOn = old.AssignedOn
              /\ ~ old.IsActive => new = old

\* C23: in every step that is not a delete_bulk (create, update_assignment,
\* start_repair, end_repair) no assignment record is removed, no closed
\* record becomes active again and no record changes its asset, employee,
\* employee name or assigned-on date.
C23_HistoryAppendAndClose == [][~ DeleteStep => HistoryKept]_vars

\* a record closed by an earlier commit sits before the active record that
\* the last update_assignment opened for the same asset and another employee
C23_Witness ==
    /\ lastCommit.op = "reassign"
    /\ \E i, j \in 1..Len(assignmenthistory) :
          /\ i < j
          /\ assignmenthistory[i].AssetId = assignmenthistory[j].AssetId
          /\ assignmenthistory[i].EmployeeId # assignmenthistory[j].EmployeeId
          /\ ~ assignmenthistory[i].IsActive
          /\ assignmenthistory[i].ReturnedOn < clock - 1
          /\ assignmenthistory[j].IsActive
          /\ assignmenthistory[j].AssignedOn = clock - 1

----------------------------------------------------------------------------
(* Specification: the directory changes under the application.  No code of  *)
(* the repository writes peopledata; an employee row is deleted or renamed  *)
(* in the database, and the foreign keys declared on the tables decide what *)
(* happens to the rows that reference it.                                    *)

NewNames == {"Renamed"}

\* DELETE FROM PeopleData WHERE NameId = e: AssignedTo is ON DELETE SET NULL,
\* assignmenthistory.EmployeeId is ON DELETE CASCADE
DeleteEmployee(e) ==
    /\ e \in DOMAIN peopledata
    /\ peopledata' = [x \in DOMAIN peopledata \ {e} |-> peopledata[x]]
    /\ assetdata' = [a \in DOMAIN assetdata |->
                        IF assetdata[a].AssignedTo = e
                        THEN [assetdata[a] EXCEPT !.AssignedTo = NULL]
                        ELSE assetdata[a]]
    /\ assignmenthistory' = SelectSeq(assignmenthistory, LAMBDA r : r.EmployeeId # e)
    /\ UNCHANGED <<assetidcounter, specdata, repairstatustracker, clock,
                   lastCommit, issued, sessions, authVars>>

\* UPDATE PeopleData SET Name = name WHERE NameId = e: no table references Name
RenameEmployee(e, name) ==
    /\ e \in DOMAIN peopledata
    /\ peopledata[e] # name
    /\ peopledata' = [peopledata EXCEPT ![e] = name]
    /\ UNCHANGED <<tables, clock, lastCommit, issued, sessions, authVars>>

NextDirectory ==
    \/ Next
    \/ \E e \in DOMAIN peopledata : DeleteEmployee(e)
    \/ \E e \in DOMAIN peopledata, name \in NewNames : RenameEmployee(e, name)

SpecDirectory == Init /\ [][NextDirectory]_vars

\* C24: when an employee is deleted from the directory or renamed, the
\* assignment records, with the employee name they captured, stay as they
\* are.
C24_HistorySurvivesDirectory ==
    [][peopledata' # peopledata => assignmenthistory' = assignmenthistory]_vars

\* the part of C24 about a rename: a renamed employee leaves every assignment
\* record, and the name it captured, as it was
C24_RenameKeepsHistory ==
    [][(DOMAIN peopledata' = DOMAIN peopledata /\ peopledata' # peopledata)
          => assignmenthistory' = assignmenthistory]_vars

\* C25: start_repair(A, d, L) on a held asset A with a stored loaner L that
\* get_available_temp_assets(type of A, A) does not return is refused and
\* writes nothing.
C25_LoanerFromPool ==
    \A a \in DOMAIN assetdata, l \in DOMAIN assetdata, d \in Details :
        (/\ Truthy(assetdata[a].AssignedTo)
         /\ l \notin GetAvailableTempAssets(Store, assetdata[a].AssetType, a))
            => LET r == StartRepair(Store, peopledata, a, d, l, clock)
               IN  r.status # "ok" /\ r.store = Store

\* the holder of asset a and its active assignment records say the same: a
\* held asset has one active record, for its holder; a free asset has none
HolderMatchesLedger(a) ==
    IF Truthy(assetdata[a].AssignedTo)
    THEN /\ Cardinality(ActiveRows(Store, a)) = 1
         /\ \A i \in ActiveRows(Store, a) :
               assignmenthistory[i].EmployeeId = assetdata[a].AssignedTo
    ELSE ActiveRows(Store, a) = {}

\* C26: in every reachable state every stored asset has a holder h exactly
\* when its single active assignment record is for h, and no active record
\* when it has no holder.
C26_HolderMatchesLedger ==
    \A a \in DOMAIN assetdata : HolderMatchesLedger(a)

\* holder and ledger agree for the assets that are not marked as a loaner in
\* use: the records that disagree are those a loaner hand-over left behind
HolderMatchesLedgerExceptLoaners ==
    \A a \in DOMAIN assetdata : ~ assetdata[a].IsTempAsset => HolderMatchesLedger(a)

\* C27: in every reachable state a stored asset has RepairStatus true exactly
\* when it has an open repair record.
C27_FlagMatchesRepairLedger ==
    \A a \in DOMAIN assetdata :
        assetdata[a].RepairStatus <=> (OpenRepairs(Store, a) # {})

\* the open repair records of other assets that name l as their loaner
ServedRepairs(s, l) ==
    {i \in 1..Len(s.repairstatustracker) :
        /\ s.repairstatustracker[i].TempAssetId = l
        /\ s.repairstatustracker[i].AssetId # l
        /\ s.repairstatustracker[i].RepairEndTimestamp = NullTime}

\* C28: in every reachable state every asset with IsTempAsset true is the
\* loaner of an open repair record of another asset.
C28_NoStrandedLoaner ==
    \A l \in DOMAIN assetdata :
        assetdata[l].IsTempAsset => ServedRepairs(Store, l) # {}

\* C29: in every reachable state no asset is the loaner of two open repair
\* records of other assets.
C29_LoanerServesOneRepair ==
    \A l \in DOMAIN assetdata : Cardinality(ServedRepairs(Store, l)) <= 1

----------------------------------------------------------------------------
(* Specification: login, refresh and logout requests *)

SpecAuth == Init /\ [][NextAuth]_vars

\* the cookie values that validate_refresh_token accepts for the user now
AcceptedTokens(ad, u, now) ==
    {t \in CookieArgs : ValidateRefreshToken(ad, t, now) = u}

\* C30: for each row of authdata at most one cookie value is accepted; a
\* token that a rotation or a logout replaced is rejected from then on; a
\* token issued to a fallback user (user_id 0) is rejected; and a refresh
\* that rotated the token rejects the same token when it is sent again.
C30_OneRefreshTokenPerUser ==
    /\ \A u \in DOMAIN authdata :
          Cardinality(AcceptedTokens(authdata, u, authNow)) <= 1
    /\ \A t \in retiredTokens : ValidateRefreshToken(authdata, t, authNow) = 0
    /\ \A t \in 1..Len(issuedTokens) :
          issuedTokens[t] = 0 => ValidateRefreshToken(authdata, t, authNow) = 0
    /\ \A t \in CookieArgs :
          LET new_token == Len(issuedTokens) + 1
              r1 == RefreshTokens(authdata, t, new_token, authNow, FALSE)
              r2 == RefreshTokens(r1.authdata, t, new_token + 1, authNow, FALSE)
              out == InvalidateRefreshToken(authdata,
                         ValidateRefreshToken(authdata, t, authNow), FALSE)
          IN  /\ r1.ok => (/\ r1.stored
                           /\ ~ r2.ok
                           /\ ValidateRefreshToken(r1.authdata, new_token, authNow)
                                  = r1.user_id)
              /\ ValidateRefreshToken(out, t, authNow) = 0

\* a token that a rotation replaced was sent again and refused, while the
\* token of the rotation is accepted for its user; a fallback user holds a
\* token as well
C30_Witness ==
    /\ lastAuth.op = "refresh"
    /\ ~ lastAuth.accepted
    /\ lastAuth.token \in retiredTokens
    /\ \E u \in DOMAIN authdata : AcceptedTokens(authdata, u, authNow) # {}
    /\ \E t \in 1..Len(issuedTokens) : issuedTokens[t] = 0

====
